---- MODULE Spec2Model ----
(***************************************************************************)
(* The offline-first synchronization engine of the worksheet application:  *)
(* the SyncService class (src/src/services/sync-service.js), the local     *)
(* IndexedDB accessors the application binds to it (src/unnamed/part_007,  *)
(* bound in src/src/hooks/useAuth.js) and the Firestore service            *)
(* (src/firebase-db.js).                                                   *)
(*                                                                         *)
(* Every await of the code is a suspension point: an asynchronous method   *)
(* is one action per stretch of code between two awaits, and the state a   *)
(* suspended invocation keeps (its plan, its cursor) is kept per caller.   *)
(* A store call takes effect when its promise settles.                     *)
(***************************************************************************)
EXTENDS Integers, Sequences, FiniteSets, TLC

\* ---------------------------------------------------------------- bounds

\* Number of worksheet ids. Ids are numbered in creation order, so the order
\* of ids is the order of the worksheets' creation dates.
NumIds == 2
\* Initial updatedAt values are drawn from 1..MaxTime; the clock starts after.
MaxTime == 2
\* Calls the application and the host environment make in one behaviour.
MaxCalls == 3
\* Words in the message of an error that reaches the engine.
MaxWords == 2

Ids == 1..NumIds

\* ------------------------------------------------------------- worksheets

\* A stored worksheet. updatedAt = 0 and syncedAt = 0 stand for a missing
\* field, deleted = FALSE for a missing or false tombstone flag. src names
\* the content (which device wrote this version).
Absent == [id |-> 0, updatedAt |-> 0, deleted |-> FALSE, src |-> "none", syncedAt |-> 0]

Doc(i, t, d, s, y) == [id |-> i, updatedAt |-> t, deleted |-> d, src |-> s, syncedAt |-> y]

\* The callers that can run a reconciliation pass: two startSync invocations
\* and the manual trigger (useSync.performSync).
Starters == {"s1", "s2"}
Callers == Starters \cup {"m"}

\* The invocations of processPendingSyncs that can be in flight together, and
\* those of syncWorksheetToCloud: the application's direct call and the one
\* nested in each queue drain.
Drains == {"d1", "d2"}
Uploaders == {"u"} \cup Drains

\* Errors a remote store call rejects with (Firestore error codes).
Errors == {"unavailable", "permission-denied"}

\* The events the engine emits to its listeners.
EventNames == {"sync-started", "sync-stopped", "initial-sync", "complete",
               "sync-error", "auth-error", "worksheet-synced", "online", "offline",
               "worksheet-added", "worksheet-updated", "worksheet-deleted"}

VARIABLES
    local,        \* the IndexedDB object store: id -> worksheet or Absent
    remote,       \* the Firestore collection of the user: id -> document or Absent
    clock,        \* the value new Date() returns next
    authed,       \* auth.isAuthenticated()
    this,         \* the SyncService fields
    subs,         \* the onSnapshot subscriptions opened and not cancelled
    events,       \* how often each event was delivered to the listeners
    lastComplete, \* the payload of the last 'sync-progress' complete event
    pc,           \* where each caller of a pass is suspended
    frame,        \* each caller's locals of performInitialSync
    result,       \* how each caller's last invocation ended
    up,           \* each syncWorksheetToCloud invocation: position and worksheet
    drain,        \* the locals of processPendingSyncs
    obs,          \* what the last pass did, for the properties
    peer,         \* the user's other device: its local store and SyncService fields
    snap          \* each run of the subscription callback: position and locals

vars == <<local, remote, clock, authed, this, subs, events, lastComplete,
          pc, frame, result, up, drain, obs, peer, snap>>

\* ------------------------------------------------------- the local store

\* Ids of a set as a sequence, largest (most recently created) first.
RECURSIVE DescSeq(_)
DescSeq(S) ==
    IF S = {} THEN <<>>
    ELSE LET x == CHOOSE x \in S : \A y \in S : x >= y
         IN  <<x>> \o DescSeq(S \ {x})

\* getAllWorksheets: the records that are not deleted, newest date first.
getAllWorksheets(store) ==
    LET live == {i \in Ids : store[i] # Absent /\ ~store[i].deleted}
        s    == DescSeq(live)
    IN  [k \in 1..Len(s) |-> store[s[k]]]

\* getWorksheetById: the record, or null.
getWorksheetById(store, i) == store[i]

\* saveLocalWorksheet / updateLocalWorksheet: store.put(worksheet).
saveLocalWorksheet(store, w) == [store EXCEPT ![w.id] = w]

\* deleteLocalWorksheet: store.delete(id), a hard delete.
deleteLocalWorksheet(store, i) == [store EXCEPT ![i] = Absent]

\* deleteWorksheet: the application's delete writes a tombstone.
deleteWorksheet(store, i, now) ==
    IF getWorksheetById(store, i) # Absent
    THEN [store EXCEPT ![i] = [@ EXCEPT !.deleted = TRUE, !.updatedAt = now]]
    ELSE store

\* ------------------------------------------------------ the remote store

\* getUserWorksheets(userId): every document of the user, tombstones
\* included, orderBy('updatedAt', 'desc').
getUserWorksheets(store) ==
    LET s == DescSeq({i \in Ids : store[i] # Absent})
        docs == [k \in 1..Len(s) |-> store[s[k]]]
    IN  SortSeq(docs, LAMBDA a, b :
            a.updatedAt > b.updatedAt \/ (a.updatedAt = b.updatedAt /\ a.id > b.id))

\* The document saveWorksheet leaves: setDoc(..., {merge: true}) of the
\* worksheet's fields, the owner, updatedAt (kept when the worksheet has one)
\* and a fresh syncedAt. A field the worksheet lacks keeps the document's value.
saveWorksheetRefreshing(old, w, now) ==
    Doc(w.id, now, w.deleted \/ old.deleted, w.src, now)

saveWorksheetUnstamped(old, w, now) ==
    Doc(w.id, IF w.updatedAt # 0 THEN w.updatedAt ELSE now,
        w.deleted \/ old.deleted, w.src, w.syncedAt)

saveWorksheetDoc(old, w, now) ==
    Doc(w.id, IF w.updatedAt # 0 THEN w.updatedAt ELSE now,
        w.deleted \/ old.deleted, w.src, now)

saveWorksheet(store, w, now) ==
    [store EXCEPT ![w.id] = saveWorksheetDoc(@, w, now)]

\* ------------------------------------------------------------- the engine

\* An error as isAuthError looks at it: its message, a text or missing, and
\* its code, a text (Firestore), a number (DOMException of IndexedDB) or
\* missing. A text is a sequence of words.
Words == {"Authentication", "expired", "Please", "sign in again",
          "permission-denied", "unauthenticated", "Network", "error"}

Texts(n) == UNION {[1..k -> Words] : k \in 0..n}

NoError == [given |-> FALSE, message |-> [has |-> FALSE, text |-> <<>>],
            code |-> [kind |-> "missing", text |-> <<>>]]

ErrorInputs ==
    {NoError} \cup
    [given   : {TRUE},
     message : {[has |-> FALSE, text |-> <<>>]} \cup [has : {TRUE}, text : Texts(MaxWords)],
     code    : {[kind |-> "missing", text |-> <<>>], [kind |-> "number", text |-> <<>>]}
               \cup [kind : {"string"}, text : Texts(1)]]

\* The error a Firestore call rejects with: a message and a string code.
FirestoreError(e) ==
    [given |-> TRUE, message |-> [has |-> TRUE, text |-> <<"error">>],
     code |-> [kind |-> "string", text |-> <<e>>]]

\* authErrorMessages, in the order of the array.
authErrorMessages ==
    << <<"Authentication", "expired">>, <<"Please", "sign in again">>,
       <<"permission-denied">>, <<"unauthenticated">> >>

\* String.prototype.includes.
Includes(text, m) ==
    \E k \in 0..(Len(text) - Len(m)) : SubSeq(text, k + 1, k + Len(m)) = m

\* authErrorMessages.some(...) from marker k on: the message is tried first;
\* `error.code?.includes(msg)` is skipped for a missing code and is a
\* TypeError for a code that is not a string, which isAuthError lets through.
RECURSIVE SomeMarker(_, _)
SomeMarker(error, k) ==
    IF k > Len(authErrorMessages) THEN "false"
    ELSE IF error.message.has /\ Includes(error.message.text, authErrorMessages[k]) THEN "true"
    ELSE IF error.code.kind = "number" THEN "threw"
    ELSE IF error.code.kind = "string" /\ Includes(error.code.text, authErrorMessages[k]) THEN "true"
    ELSE SomeMarker(error, k + 1)

\* isAuthError(error): "true", "false", or "threw" when it throws.
isAuthErrorOf(error) == IF ~error.given THEN "false" ELSE SomeMarker(error, 1)

\* isAuthError on the error of a Firestore call with code e.
isAuthErrorAlways(e) == TRUE

isAuthError(e) == isAuthErrorOf(FirestoreError(e)) = "true"

notifyListeners(ev, name) == [ev EXCEPT ![name] = @ + 1]

\* The engine with what its calls act on: its fields, the remote
\* subscriptions and the listeners' event counts.
Engine == [this |-> this, subs |-> subs, events |-> events]

SetEngine(E) == this' = E.this /\ subs' = E.subs /\ events' = E.events

\* stopSync.
stopSyncKeepHandle(E) ==
    [this   |-> [E.this EXCEPT !.syncStarted = FALSE],
     subs   |-> IF E.this.unsubscribe # 0 THEN E.subs \ {E.this.unsubscribe} ELSE E.subs,
     events |-> notifyListeners(E.events, "sync-stopped")]

stopSync(E) ==
    [this   |-> [E.this EXCEPT !.unsubscribe = 0, !.syncStarted = FALSE],
     subs   |-> IF E.this.unsubscribe # 0 THEN E.subs \ {E.this.unsubscribe} ELSE E.subs,
     events |-> notifyListeners(E.events, "sync-stopped")]

\* --------------------------------------------- performInitialSync: the plan

Find(list, i) ==
    IF \E k \in 1..Len(list) : list[k].id = i
    THEN list[CHOOSE k \in 1..Len(list) : list[k].id = i]
    ELSE Absent

\* new Date(w.updatedAt || w.date): every writer of the application sets
\* updatedAt, so the fallback to the creation date is not taken.
TimeOf(w) == w.updatedAt

\* A worksheet only in the remote set: ignored when it is a tombstone.
RemoteOnlyAlways(r) == "download"

RemoteOnlyNever(r) == "none"

RemoteOnly(r) == IF r.deleted THEN "none" ELSE "download"

\* A worksheet only in the local set.
LocalOnlyNever(l) == "none"

LocalOnlyAlways(l) == "upload"

LocalOnly(l) == IF ~l.deleted THEN "upload" ELSE "none"

\* A worksheet in both sets: tombstones first, then the timestamps.
InBothLocalWins(l, r) ==
    IF r.deleted /\ ~l.deleted THEN "delete"
    ELSE "upload"

InBothTombstonesAlone(l, r) ==
    IF r.deleted /\ ~l.deleted THEN "delete"
    ELSE IF l.deleted /\ ~r.deleted THEN "upload"
    ELSE IF l.deleted /\ r.deleted THEN "none"
    ELSE IF TimeOf(l) > TimeOf(r) THEN "upload"
    ELSE IF TimeOf(r) > TimeOf(l) THEN "download"
    ELSE "none"

InBoth(l, r) ==
    IF r.deleted /\ ~l.deleted THEN "delete"
    ELSE IF l.deleted /\ ~r.deleted THEN "upload"
    ELSE IF TimeOf(l) > TimeOf(r) THEN "upload"
    ELSE IF TimeOf(r) > TimeOf(l) THEN "download"
    ELSE "none"

LocalAction(l, remoteList) ==
    IF Find(remoteList, l.id) = Absent THEN LocalOnly(l)
    ELSE InBoth(l, Find(remoteList, l.id))

\* toUpload, toDownload and toDeleteLocally of one pass.
Plan(localList, remoteList) ==
    LET both == SelectSeq(localList, LAMBDA l : LocalAction(l, remoteList) = "download")
        dels == SelectSeq(localList, LAMBDA l : LocalAction(l, remoteList) = "delete")
    IN  [toUpload   |-> SelectSeq(localList, LAMBDA l : LocalAction(l, remoteList) = "upload"),
         toDownload |-> [k \in 1..Len(both) |-> Find(remoteList, both[k].id)]
                        \o SelectSeq(remoteList, LAMBDA r :
                               Find(localList, r.id) = Absent /\ RemoteOnly(r) = "download"),
         toDeleteLocally |-> [k \in 1..Len(dels) |-> dels[k].id]]

NoFrame == [localWorksheets |-> <<>>, toUpload |-> <<>>, toDownload |-> <<>>,
            toDeleteLocally |-> <<>>, i |-> 0]

\* The store call a pass with this plan awaits after finishing call i of
\* phase p ("plan" before the first): the next of the uploads, then of the
\* downloads, then of the local deletes, or "complete".
NextCallUploadsOnly(f, p, i) ==
    IF p = "upload" /\ i < Len(f.toUpload) THEN [pc |-> "upload", i |-> i + 1]
    ELSE IF p \in {"plan"} /\ Len(f.toUpload) > 0 THEN [pc |-> "upload", i |-> 1]
    ELSE [pc |-> "complete", i |-> 0]

NextCall(f, p, i) ==
    IF p = "upload" /\ i < Len(f.toUpload) THEN [pc |-> "upload", i |-> i + 1]
    ELSE IF p = "download" /\ i < Len(f.toDownload) THEN [pc |-> "download", i |-> i + 1]
    ELSE IF p = "deleteLocal" /\ i < Len(f.toDeleteLocally) THEN [pc |-> "deleteLocal", i |-> i + 1]
    ELSE IF p \in {"plan"} /\ Len(f.toUpload) > 0 THEN [pc |-> "upload", i |-> 1]
    ELSE IF p \in {"plan", "upload"} /\ Len(f.toDownload) > 0 THEN [pc |-> "download", i |-> 1]
    ELSE IF p \in {"plan", "upload", "download"} /\ Len(f.toDeleteLocally) > 0
         THEN [pc |-> "deleteLocal", i |-> 1]
    ELSE [pc |-> "complete", i |-> 0]

\* ------------------------------------- performInitialSync: control flow

\* The guard of performInitialSync.
NeverInProgress(t) == FALSE

AlreadyInProgress(t) == t.syncInProgress

\* performInitialSync has returned to its caller: startSync goes on into
\* setupRealtimeListeners, which first cancels a subscription it holds;
\* the manual trigger is done.
Returned(c, E, how) ==
    IF c \in Starters
    THEN [E |-> [this   |-> [E.this EXCEPT !.unsubscribe = 0],
                 subs   |-> IF E.this.unsubscribe # 0
                            THEN E.subs \ {E.this.unsubscribe} ELSE E.subs,
                 events |-> E.events],
          pc |-> "subscribe", result |-> how]
    ELSE [E |-> E, pc |-> "idle", result |-> how]

\* performInitialSync has thrown to its caller: startSync resets its flag and
\* emits 'sync-error'; useSync.performSync throws on.
Thrown(c, E) ==
    IF c \in Starters
    THEN [E |-> [E EXCEPT !.this.syncStarted = FALSE,
                          !.events = notifyListeners(@, "sync-error")],
          pc |-> "idle", result |-> "failed"]
    ELSE [E |-> E, pc |-> "idle", result |-> "threw"]

\* The end of the try block: the complete event, then finally.
Completed(c, E) ==
    Returned(c, [E EXCEPT !.events = notifyListeners(@, "complete"),
                          !.this.syncInProgress = FALSE], "ok")

\* The catch block, then finally, then the caller.
FailedKeepsSync(c, E, e) ==
    LET E1 == IF isAuthError(e)
              THEN [E EXCEPT !.events = notifyListeners(@, "auth-error")]
              ELSE E
    IN  Thrown(c, [E1 EXCEPT !.this.syncInProgress = FALSE])

FailedHoldsGuard(c, E, e) ==
    LET E1 == IF isAuthError(e)
              THEN stopSync([E EXCEPT !.events = notifyListeners(@, "auth-error")])
              ELSE E
    IN  Thrown(c, E1)

Failed(c, E, e) ==
    LET E1 == IF isAuthError(e)
              THEN stopSync([E EXCEPT !.events = notifyListeners(@, "auth-error")])
              ELSE E
    IN  Thrown(c, [E1 EXCEPT !.this.syncInProgress = FALSE])

\* The start of performInitialSync, up to its first await.
Enter(c, E) ==
    IF AlreadyInProgress(E.this)
    THEN Returned(c, E, "skipped")
    ELSE [E |-> [E EXCEPT !.this.syncInProgress = TRUE,
                          !.events = notifyListeners(@, "initial-sync")],
          pc |-> "readLocal", result |-> "running"]

\* What a step of caller c leaves: the engine, the caller's position and result.
Leave(c, o) ==
    /\ SetEngine(o.E)
    /\ pc' = [pc EXCEPT ![c] = o.pc]
    /\ result' = [result EXCEPT ![c] = o.result]

\* The device the model follows; the other one is kept in peer.
Device == IF peer.name = "A" THEN "B" ELSE "A"

\* A worksheet is live, in a store, when it is there and not deleted.
Live(store, i) == store[i] # Absent /\ ~store[i].deleted

\* How far the soft delete of a worksheet that was live on both devices and
\* remotely has come: 1 written on device dev, 2 propagated by dev (tombstone
\* uploaded, or a pass of dev completed), 3 the other device has afterwards
\* completed a pass or applied a snapshot.
NoConv == [stage |-> 0, dev |-> "none", id |-> 0]
Deleted(o, i, stage) ==
    IF Live(remote, i) /\ Live(peer.store, i)
    THEN [o EXCEPT !.conv = [stage |-> stage, dev |-> Device, id |-> i]]
    ELSE o
Received(o) ==
    IF o.conv.stage = 2 /\ o.conv.dev # Device THEN [o EXCEPT !.conv.stage = 3] ELSE o
Reconciled(o) ==
    IF o.conv.stage = 1 /\ o.conv.dev = Device THEN [o EXCEPT !.conv.stage = 2]
    ELSE Received(o)

\* The pass goes on after call i of phase p, or completes.
Advance(c, f, p, o) ==
    LET n == NextCall(f, p, f.i)
    IN  IF n.pc = "complete"
        THEN /\ Leave(c, Completed(c, Engine))
             /\ obs' = [Reconciled(o) EXCEPT !.clean = TRUE]
             /\ frame' = [frame EXCEPT ![c] = NoFrame]
             /\ lastComplete' = [uploaded   |-> Len(f.toUpload),
                                 downloaded |-> Len(f.toDownload),
                                 deleted    |-> Len(f.toDeleteLocally)]
        ELSE /\ Leave(c, [E |-> Engine, pc |-> n.pc, result |-> "running"])
             /\ obs' = o
             /\ frame' = [frame EXCEPT ![c] = [f EXCEPT !.i = n.i]]
             /\ UNCHANGED lastComplete

\* A store call of the pass rejects with e.
Abort(c, e, o) ==
    /\ Leave(c, Failed(c, Engine, e))
    /\ obs' = [o EXCEPT !.err = e]
    /\ frame' = [frame EXCEPT ![c] = NoFrame]
    /\ UNCHANGED lastComplete

NoOps == [uploaded |-> 0, downloaded |-> 0, deleted |-> 0]

\* The record of the calls made so far, with one more.
Called(o, name) == [o EXCEPT !.trace = Append(@, name)]

\* The record of a pass that has just acquired the guard.
ObsEnter(o) ==
    [o EXCEPT !.passes = @ + 1, !.startLocal = local, !.startRemote = remote,
              !.prevClean = o.clean, !.ops = NoOps, !.got = {}]

\* useSync.performSync: the manual trigger.
performSync ==
    /\ UNCHANGED <<peer, snap>>
    /\ pc["m"] = "idle"
    /\ Len(obs.trace) < MaxCalls
    /\ authed
    /\ Leave("m", Enter("m", Engine))
    /\ obs' = IF AlreadyInProgress(this)
              THEN Called(obs, "pass")
              ELSE Called(ObsEnter(obs), "pass")
    /\ UNCHANGED <<local, remote, clock, authed, lastComplete, frame, up, drain>>

\* getUserId and getAllLocalWorksheets have resolved.
PassReadLocal(c) ==
    /\ UNCHANGED <<peer, snap>>
    /\ pc[c] = "readLocal"
    /\ pc' = [pc EXCEPT ![c] = "readRemote"]
    /\ frame' = [frame EXCEPT ![c] = [NoFrame EXCEPT !.localWorksheets = getAllWorksheets(local)]]
    /\ UNCHANGED <<local, remote, clock, authed, this, subs, events, lastComplete,
                   result, up, drain, obs>>

\* getUserWorksheets has settled; on success the plan is made and its first
\* store call started.
PassReadRemote(c) ==
    /\ UNCHANGED <<peer, snap>>
    /\ pc[c] = "readRemote"
    /\ \E out \in {"ok"} \cup Errors :
         IF out = "ok"
         THEN LET plan == Plan(frame[c].localWorksheets, getUserWorksheets(remote))
              IN  Advance(c, plan @@ [localWorksheets |-> frame[c].localWorksheets, i |-> 0],
                          "plan", obs)
         ELSE Abort(c, out, obs)
    /\ UNCHANGED <<local, remote, clock, authed, up, drain>>

\* db.saveWorksheet(userId, toUpload[i]) has settled.
PassUpload(c) ==
    /\ UNCHANGED <<peer, snap>>
    /\ pc[c] = "upload"
    /\ \E out \in {"ok"} \cup Errors :
         IF out = "ok"
         THEN /\ remote' = saveWorksheet(remote, frame[c].toUpload[frame[c].i], clock)
              /\ clock' = clock + 1
              /\ Advance(c, frame[c], "upload", [obs EXCEPT !.ops.uploaded = @ + 1])
         ELSE /\ Abort(c, out, obs)
              /\ UNCHANGED <<remote, clock>>
    /\ UNCHANGED <<local, authed, up, drain>>

\* saveLocalWorksheet(toDownload[i]) has resolved.
PassDownload(c) ==
    /\ UNCHANGED <<peer, snap>>
    /\ pc[c] = "download"
    /\ local' = saveLocalWorksheet(local, frame[c].toDownload[frame[c].i])
    /\ Advance(c, frame[c], "download",
               [obs EXCEPT !.ops.downloaded = @ + 1,
                           !.got = @ \cup {frame[c].toDownload[frame[c].i].id}])
    /\ UNCHANGED <<remote, clock, authed, up, drain>>

\* deleteLocalWorksheet(toDeleteLocally[i]) has resolved.
PassDeleteLocal(c) ==
    /\ UNCHANGED <<peer, snap>>
    /\ pc[c] = "deleteLocal"
    /\ local' = deleteLocalWorksheet(local, frame[c].toDeleteLocally[frame[c].i])
    /\ Advance(c, frame[c], "deleteLocal", [obs EXCEPT !.ops.deleted = @ + 1])
    /\ UNCHANGED <<remote, clock, authed, up, drain>>

\* ------------------------------------------------------- the application

\* The application deletes a worksheet it lists (deleteWorksheet of the
\* local database: a tombstone with a fresh updatedAt).
AppDelete(i) ==
    /\ UNCHANGED <<peer, snap>>
    /\ \A c \in Callers : pc[c] \in {"idle", "subscribe"}
    /\ Len(obs.trace) < MaxCalls
    /\ local[i] # Absent /\ ~local[i].deleted
    /\ local' = deleteWorksheet(local, i, clock)
    /\ clock' = clock + 1
    /\ obs' = [Deleted(Called(obs, "delete"), i, 1) EXCEPT !.clean = FALSE]
    /\ UNCHANGED <<remote, authed, this, subs, events, lastComplete, pc, frame,
                   result, up, drain>>

\* The application saves a worksheet it has open (saveWorksheet of the local
\* database: the record with a fresh updatedAt), whatever the engine is doing.
AppSave(i) ==
    /\ UNCHANGED <<peer, snap>>
    /\ Len(obs.trace) < MaxCalls
    /\ Live(local, i)
    /\ local' = saveLocalWorksheet(local, Doc(i, clock, FALSE, "L", 0))
    /\ clock' = clock + 1
    /\ obs' = [Called(obs, "save") EXCEPT !.clean = FALSE]
    /\ UNCHANGED <<remote, authed, this, subs, events, lastComplete, pc, frame,
                   result, up, drain>>

\* ------------------------------------------------------------ initial states

NoEvents == [e \in EventNames |-> 0]

\* No syncWorksheetToCloud invocation in flight; no drain in flight.
NoUpload == [pc |-> "idle", w |-> Absent, result |-> "none", error |-> "none"]
NoDrain == [active |-> FALSE, pending |-> <<>>]

\* What a drain took from the queue, the entries it attempted with how each
\* attempt ended, and the queue it left.
NoDrainLog == [taken |-> <<>>, tried |-> <<>>, how |-> <<>>, after |-> <<>>]

\* The fields of a SyncService just constructed.
NewService(online) ==
    [isOnline |-> online, syncInProgress |-> FALSE, syncStarted |-> FALSE,
     pendingSyncs |-> <<>>, unsubscribe |-> 0]

\* The runs of the subscription callback that can be in flight together; none
\* in flight.
Handlers == {"h1", "h2"}
NoSnap == [pc |-> "idle", rest |-> <<>>, cur |-> Absent, act |-> "none"]

\* A second device that holds nothing and syncs nothing.
NoPeer == [name |-> "B", store |-> [i \in Ids |-> Absent], this |-> NewService(TRUE)]

\* The application's save or delete handler last called: what it did, to
\* which worksheet, the updatedAt it wrote, and how it ended.
NoHandler == [op |-> "none", id |-> 0, at |-> 0, outcome |-> "none"]

\* The engine with the fields t and the open subscriptions s, nothing in
\* flight; error is the error its next failing call will reject with.
InitEngineFor(t, s, error) ==
    /\ this = t
    /\ snap = [h \in Handlers |-> NoSnap]
    /\ subs = s
    /\ events = NoEvents
    /\ lastComplete = NoOps
    /\ pc = [c \in Callers |-> "idle"]
    /\ frame = [c \in Callers |-> NoFrame]
    /\ result = [c \in Callers |-> "none"]
    /\ up = [u \in Uploaders |-> NoUpload]
    /\ drain = [d \in Drains |-> NoDrain]
    /\ obs = [trace |-> <<>>, passes |-> 0, startLocal |-> local, startRemote |-> remote,
              prevClean |-> FALSE, clean |-> FALSE, ops |-> NoOps, got |-> {},
              saves |-> [i \in Ids |-> 0], dr |-> [d \in Drains |-> NoDrainLog],
              queued |-> {}, uploaded |-> {}, rejected |-> {}, authFailures |-> 0, opened |-> Cardinality(s), setup |-> "none", err |-> "none",
              conv |-> NoConv, cls |-> [error |-> error, result |-> "none"],
              handler |-> NoHandler]

InitEngineOf(t, s) == InitEngineFor(t, s, NoError)

InitEngine(online) == InitEngineOf(NewService(online), {})

\* Worksheets written earlier on this device (live, never stamped) and
\* documents other devices left in the remote store (live or tombstoned).
LocalShapes == {[t |-> 0, d |-> FALSE]} \cup [t : 1..MaxTime, d : {FALSE}]
RemoteShapes == {[t |-> 0, d |-> FALSE]} \cup [t : 1..MaxTime, d : BOOLEAN]

\* The timestamp of a record whose counterpart is absent is compared with
\* nothing: one value stands for all.
PairShapes ==
    {p \in [l : LocalShapes, r : RemoteShapes] :
        (p.l.t = 0 => p.r.t <= 1) /\ (p.r.t = 0 => p.l.t <= 1)}

Shaped(i, sh, s, y) == IF sh.t = 0 THEN Absent ELSE Doc(i, sh.t, sh.d, s, y)

\* Reconciliation: any local and remote record sets, a signed-in user.
InitSync ==
    /\ \E f \in [Ids -> PairShapes] :
          /\ local = [i \in Ids |-> Shaped(i, f[i].l, "L", 0)]
          /\ remote = [i \in Ids |-> Shaped(i, f[i].r, "R", f[i].r.t)]
    /\ clock = MaxTime + 1
    /\ authed = TRUE
    /\ peer = NoPeer
    /\ InitEngine(TRUE)

NextSync ==
    \/ \E i \in Ids : AppDelete(i)
    \/ performSync
    \/ PassReadLocal("m")
    \/ PassReadRemote("m")
    \/ PassUpload("m")
    \/ PassDownload("m")
    \/ PassDeleteLocal("m")

SpecSync == InitSync /\ [][NextSync]_vars

\* The pass of the manual trigger while the application saves worksheets.
NextRace ==
    \/ \E i \in Ids : AppSave(i)
    \/ performSync
    \/ PassReadLocal("m")
    \/ PassReadRemote("m")
    \/ PassUpload("m")
    \/ PassDownload("m")
    \/ PassDeleteLocal("m")

SpecRace == InitSync /\ [][NextRace]_vars

\* ------------------------------------------------- reconciliation properties

\* ---- The upload path and the retry queue (syncWorksheetToCloud,
\* ---- processPendingSyncs, the online and offline handlers)

\* A write is put at the back of the retry queue.
Enqueue(q, w) == Append(q, w)

\* What processPendingSyncs leaves in the queue once it has copied it.
TakePendingKeep(q) == q
TakePending(q) == <<>>

\* The catch of processPendingSyncs: the entry whose attempt threw.
RequeueDrop(q, entry) == q
Requeue(q, entry) == Append(q, entry)

\* The checks syncWorksheetToCloud makes before its first store call.
CanUpload(t) == authed /\ t.isOnline

\* The catch of syncWorksheetToCloud: the save of w rejected with e.
UploadCatch(E, w, e) ==
    IF isAuthError(e)
    THEN [E EXCEPT !.events = notifyListeners(@, "auth-error")]
    ELSE [E EXCEPT !.this.pendingSyncs = Enqueue(@, w)]

\* The loop of processPendingSyncs from the entries not yet attempted: the
\* next one is handed to syncWorksheetToCloud, which starts a remote save or,
\* offline or signed out, queues it and returns at once, as it then does for
\* every entry after it.
DrainLoop(t, rest, h) ==
    IF rest # <<>> /\ CanUpload(t)
    THEN [this |-> t,
          upd  |-> [pc |-> "save", w |-> Head(rest), result |-> "running", error |-> "none"],
          dr   |-> [active |-> TRUE, pending |-> Tail(rest)],
          h    |-> [h EXCEPT !.tried = Append(@, Head(rest))]]
    ELSE LET q == t.pendingSyncs \o rest
         IN  [this |-> [t EXCEPT !.pendingSyncs = q],
              upd  |-> NoUpload,
              dr   |-> NoDrain,
              h    |-> [h EXCEPT !.tried = @ \o rest,
                                 !.how = @ \o [k \in 1..Len(rest) |-> "queued"],
                                 !.after = q]]

\* The drain d moves on as DrainLoop decided.
DrainStep(d, o, ob) ==
    /\ this' = o.this
    /\ up' = [up EXCEPT ![d] = o.upd]
    /\ drain' = [drain EXCEPT ![d] = o.dr]
    /\ obs' = [ob EXCEPT !.dr[d] = o.h,
                         !.saves = IF o.upd.pc = "save"
                                   THEN [@ EXCEPT ![o.upd.w.id] = @ + 1]
                                   ELSE @]

\* useSync.syncWorksheet / the save handlers: the application hands the
\* stored record i to syncWorksheetToCloud.
AppSync(i) ==
    /\ UNCHANGED <<peer, snap>>
    /\ up["u"].pc = "idle"
    /\ Len(obs.trace) < MaxCalls
    /\ local[i] # Absent
    /\ LET w == local[i]
       IN  IF CanUpload(this)
           THEN /\ up' = [up EXCEPT !["u"] = [pc |-> "save", w |-> w,
                                              result |-> "running", error |-> "none"]]
                /\ obs' = [Called(obs, "sync") EXCEPT !.saves[i] = @ + 1,
                                                      !.rejected = @ \ {w}]
                /\ UNCHANGED this
           ELSE /\ up' = [up EXCEPT !["u"] = [pc |-> "idle", w |-> w,
                                              result |-> "queued", error |-> "none"]]
                /\ this' = [this EXCEPT !.pendingSyncs = Enqueue(@, w)]
                /\ obs' = [Called(obs, "sync") EXCEPT !.queued = @ \cup {w},
                                                      !.rejected = @ \ {w}]
    /\ UNCHANGED <<local, remote, clock, authed, subs, events, lastComplete,
                   pc, frame, result, drain>>

\* The remote saveWorksheet of the invocation f has settled. On success the
\* worksheet is stamped and the local write started. On failure the catch of
\* syncWorksheetToCloud runs and the error goes to the caller: the
\* application logs it, a drain puts the entry back and moves on.
UpSave(f) ==
    /\ UNCHANGED <<peer, snap>>
    /\ up[f].pc = "save"
    /\ \E out \in {"ok"} \cup Errors :
         LET w == up[f].w
             E1 == UploadCatch(Engine, w, out)
             o1 == [obs EXCEPT !.queued = IF isAuthError(out) THEN @ ELSE @ \cup {w},
                               !.rejected = IF isAuthError(out) THEN @ \cup {w} ELSE @,
                               !.authFailures = IF isAuthError(out) THEN @ + 1 ELSE @]
         IN  IF out = "ok"
             THEN /\ remote' = saveWorksheet(remote, w, clock)
                  /\ clock' = clock + 1
                  /\ up' = [up EXCEPT ![f] = [@ EXCEPT !.pc = "stamp", !.w.syncedAt = clock]]
                  /\ obs' = [obs EXCEPT !.uploaded = @ \cup {w}]
                  /\ UNCHANGED <<this, events, drain>>
             ELSE IF f = "u"
             THEN /\ this' = E1.this
                  /\ events' = E1.events
                  /\ up' = [up EXCEPT ![f] = [pc |-> "idle", w |-> w,
                                              result |-> "threw", error |-> out]]
                  /\ obs' = o1
                  /\ UNCHANGED <<remote, clock, drain>>
             ELSE /\ events' = E1.events
                  /\ DrainStep(f, DrainLoop([E1.this EXCEPT !.pendingSyncs = Requeue(@, w)],
                                            drain[f].pending,
                                            [obs.dr[f] EXCEPT !.how = Append(@, out)]),
                               o1)
                  /\ UNCHANGED <<remote, clock>>
    /\ UNCHANGED <<local, authed, subs, lastComplete, pc, frame, result>>

\* updateLocalWorksheet has resolved: 'worksheet-synced', and the invocation
\* returns.
UpStamp(f) ==
    /\ UNCHANGED <<peer, snap>>
    /\ up[f].pc = "stamp"
    /\ local' = saveLocalWorksheet(local, up[f].w)
    /\ events' = notifyListeners(events, "worksheet-synced")
    /\ IF f = "u"
       THEN /\ up' = [up EXCEPT ![f] = [@ EXCEPT !.pc = "idle", !.result = "synced"]]
            /\ UNCHANGED <<this, drain, obs>>
       ELSE DrainStep(f, DrainLoop(this, drain[f].pending,
                                   [obs.dr[f] EXCEPT !.how = Append(@, "ok")]),
                      obs)
    /\ UNCHANGED <<remote, clock, authed, subs, lastComplete, pc, frame, result>>

\* The window's 'online' event: the handler of the constructor, and the
\* processPendingSyncs it starts.
GoOnline ==
    /\ UNCHANGED <<peer, snap>>
    /\ ~this.isOnline
    /\ Len(obs.trace) < MaxCalls
    /\ \E x \in Drains : ~drain[x].active
    /\ LET d  == CHOOSE x \in Drains : ~drain[x].active
           t1 == [this EXCEPT !.isOnline = TRUE]
       IN  IF ~authed
           THEN /\ this' = t1
                /\ obs' = Called(obs, "online")
                /\ UNCHANGED <<up, drain>>
           ELSE DrainStep(d, DrainLoop([t1 EXCEPT !.pendingSyncs = TakePending(@)],
                                       t1.pendingSyncs,
                                       [NoDrainLog EXCEPT !.taken = t1.pendingSyncs]),
                          Called(obs, "online"))
    /\ events' = notifyListeners(events, "online")
    /\ UNCHANGED <<local, remote, clock, authed, subs, lastComplete, pc, frame, result>>

\* The window's 'offline' event.
GoOffline ==
    /\ UNCHANGED <<peer, snap>>
    /\ this.isOnline
    /\ Len(obs.trace) < MaxCalls
    /\ this' = [this EXCEPT !.isOnline = FALSE]
    /\ events' = notifyListeners(events, "offline")
    /\ obs' = Called(obs, "offline")
    /\ UNCHANGED <<local, remote, clock, authed, subs, lastComplete, pc, frame,
                   result, up, drain>>

\* The authentication service gains or loses its user.
SignIn ==
    /\ UNCHANGED <<peer, snap>>
    /\ ~authed
    /\ Len(obs.trace) < MaxCalls
    /\ authed' = TRUE
    /\ obs' = Called(obs, "signin")
    /\ UNCHANGED <<local, remote, clock, this, subs, events, lastComplete, pc,
                   frame, result, up, drain>>

SignOut ==
    /\ UNCHANGED <<peer, snap>>
    /\ authed
    /\ Len(obs.trace) < MaxCalls
    /\ authed' = FALSE
    /\ obs' = Called(obs, "signout")
    /\ UNCHANGED <<local, remote, clock, this, subs, events, lastComplete, pc,
                   frame, result, up, drain>>

\* Every worksheet is stored locally and nothing remotely; the browser is
\* online or not, a user is signed in or not.
InitQueue ==
    /\ local = [i \in Ids |-> Doc(i, 1, FALSE, "L", 0)]
    /\ remote = [i \in Ids |-> Absent]
    /\ clock = MaxTime + 1
    /\ authed \in BOOLEAN
    /\ peer = NoPeer
    /\ \E online \in BOOLEAN : InitEngine(online)

NextQueue ==
    \/ \E i \in Ids : AppSync(i)
    \/ \E f \in Uploaders : UpSave(f)
    \/ \E f \in Uploaders : UpStamp(f)
    \/ GoOnline
    \/ GoOffline
    \/ SignIn
    \/ SignOut

SpecQueue == InitQueue /\ [][NextQueue]_vars

\* The upload path against a remote store another device has written to:
\* every worksheet is stored locally, and remotely it is missing or stored in
\* the newest version.
InitUpload ==
    /\ local = [i \in Ids |-> Doc(i, 1, FALSE, "L", 0)]
    /\ remote \in [Ids -> {Absent}] \cup
                  {[i \in Ids |-> IF i = k THEN Doc(i, MaxTime, FALSE, "R", MaxTime) ELSE Absent] :
                      k \in Ids}
    /\ clock = MaxTime + 1
    /\ authed \in BOOLEAN
    /\ peer = NoPeer
    /\ \E online \in BOOLEAN : InitEngine(online)

SpecUpload == InitUpload /\ [][NextQueue]_vars

\* The guard of processPendingSyncs: the engine is online and a user is
\* signed in.
DrainGateOpen(t) == TRUE

DrainGate(t) == t.isOnline /\ authed

\* processPendingSyncs called on its own, as the engine's tests call it: a
\* drain that passes the guard copies and clears the queue and starts on its
\* first entry.
processPendingSyncs ==
    /\ UNCHANGED <<peer, snap>>
    /\ Len(obs.trace) < MaxCalls
    /\ \E x \in Drains : ~drain[x].active
    /\ LET d == CHOOSE x \in Drains : ~drain[x].active
       IN  IF ~DrainGate(this)
           THEN /\ obs' = Called(obs, "drain")
                /\ UNCHANGED <<this, up, drain>>
           ELSE DrainStep(d, DrainLoop([this EXCEPT !.pendingSyncs = TakePending(@)],
                                       this.pendingSyncs,
                                       [NoDrainLog EXCEPT !.taken = this.pendingSyncs]),
                          Called(obs, "drain"))
    /\ UNCHANGED <<local, remote, clock, authed, subs, events, lastComplete, pc,
                   frame, result>>

NextDrain ==
    \/ NextQueue
    \/ processPendingSyncs

SpecDrain == InitQueue /\ [][NextDrain]_vars

\* The remote saveWorksheet, or the local write after it, of the
\* application's syncWorksheetToCloud call has rejected with any error: the
\* catch classifies it, reports an authentication error, queues the write for
\* any other, and throws on; when isAuthError itself throws, its TypeError
\* leaves the catch before either.
UpReject ==
    /\ UNCHANGED <<peer, snap>>
    /\ up["u"].pc = "save"
    /\ obs.cls.error.given
    /\ LET error == obs.cls.error
           w == up["u"].w
           r == isAuthErrorOf(error)
       IN  /\ this' = IF r = "false"
                      THEN [this EXCEPT !.pendingSyncs = Enqueue(@, w)] ELSE this
           /\ events' = IF r = "true" THEN notifyListeners(events, "auth-error") ELSE events
           /\ up' = [up EXCEPT !["u"] = [pc |-> "idle", w |-> w,
                                          result |-> "threw", error |-> "rejected"]]
           /\ obs' = [obs EXCEPT !.cls.result = r]
    /\ UNCHANGED <<local, remote, clock, authed, subs, lastComplete, pc, frame,
                   result, drain>>

\* ---- The application's save and delete handlers

\* The catch around the cloud sync step of a handler (and the one inside
\* useSync.syncWorksheet): however syncWorksheetToCloud ended, the handler
\* returns.
CaughtNever(r) == IF r = "threw" THEN "threw" ELSE "returned"

Caught(r) == "returned"

\* The handler has written w locally and goes on to its cloud sync step:
\* skipped when no user is signed in, else syncWorksheetToCloud(w), which
\* starts a remote save or queues w.
HandlerSync(op, w) ==
    LET h == [op |-> op, id |-> w.id, at |-> w.updatedAt, outcome |-> "running"]
        o == [Called(obs, op) EXCEPT !.handler = h]
    IN  /\ local' = saveLocalWorksheet(local, w)
        /\ clock' = clock + 1
        /\ IF ~authed
           THEN /\ obs' = [o EXCEPT !.handler.outcome = "returned"]
                /\ UNCHANGED <<this, up>>
           ELSE IF CanUpload(this)
           THEN /\ up' = [up EXCEPT !["u"] = [pc |-> "save", w |-> w,
                                              result |-> "running", error |-> "none"]]
                /\ obs' = [o EXCEPT !.saves[w.id] = @ + 1, !.rejected = @ \ {w}]
                /\ UNCHANGED this
           ELSE /\ up' = [up EXCEPT !["u"] = [pc |-> "idle", w |-> w,
                                              result |-> "queued", error |-> "none"]]
                /\ this' = [this EXCEPT !.pendingSyncs = Enqueue(@, w)]
                /\ obs' = [o EXCEPT !.queued = @ \cup {w}, !.rejected = @ \ {w}]

\* handleSaveWorksheet: the worksheet is saved locally with a fresh
\* updatedAt, then synced.
handleSaveWorksheet(i) ==
    /\ UNCHANGED <<peer, snap>>
    /\ obs.handler.outcome # "running" /\ up["u"].pc = "idle"
    /\ Len(obs.trace) < MaxCalls
    /\ ~local[i].deleted
    /\ HandlerSync("save", Doc(i, clock, FALSE, "L", 0))
    /\ UNCHANGED <<remote, authed, subs, events, lastComplete, pc, frame, result, drain>>

\* handleDeleteWorksheet: the worksheet is made a tombstone locally, then the
\* tombstone is synced.
handleDeleteWorksheet(i) ==
    /\ UNCHANGED <<peer, snap>>
    /\ obs.handler.outcome # "running" /\ up["u"].pc = "idle"
    /\ Len(obs.trace) < MaxCalls
    /\ Live(local, i)
    /\ HandlerSync("delete", deleteWorksheet(local, i, clock)[i])
    /\ UNCHANGED <<remote, authed, subs, events, lastComplete, pc, frame, result, drain>>

\* syncWorksheetToCloud has settled, and the handler that awaited it ends.
HandlerReturn ==
    /\ UNCHANGED <<peer, snap>>
    /\ obs.handler.outcome = "running" /\ up["u"].pc = "idle"
    /\ obs' = [obs EXCEPT !.handler.outcome = Caught(up["u"].result)]
    /\ UNCHANGED <<local, remote, clock, authed, this, subs, events, lastComplete,
                   pc, frame, result, up, drain>>

NextHandlers ==
    \/ \E i \in Ids : handleSaveWorksheet(i)
    \/ \E i \in Ids : handleDeleteWorksheet(i)
    \/ HandlerReturn
    \/ UpSave("u")
    \/ UpStamp("u")
    \/ GoOffline
    \/ SignIn
    \/ SignOut

SpecHandlers == InitQueue /\ [][NextHandlers]_vars

\* One worksheet is stored locally; a user is signed in and the browser
\* online; the store calls of the behaviour reject with one error, any.
InitClassify ==
    /\ local = [i \in Ids |-> IF i = 1 THEN Doc(1, 1, FALSE, "L", 0) ELSE Absent]
    /\ remote = [i \in Ids |-> Absent]
    /\ clock = MaxTime + 1
    /\ authed = TRUE
    /\ peer = NoPeer
    /\ \E error \in ErrorInputs \ {NoError} : InitEngineFor(NewService(TRUE), {}, error)

NextClassify ==
    \/ \E i \in Ids : AppSync(i)
    \/ UpReject

SpecClassify == InitClassify /\ [][NextClassify]_vars

\* ---- Starting and stopping (startSync, stopSync, setupRealtimeListeners)

\* startSync, called by initialize or by the application's sign-in listener.
\* The second invocation is only needed while the first is in flight.
startSync(c) ==
    /\ UNCHANGED <<peer, snap>>
    /\ pc[c] = "idle"
    /\ c = "s1" \/ pc["s1"] # "idle"
    /\ Len(obs.trace) < MaxCalls
    /\ IF ~authed
       THEN /\ result' = [result EXCEPT ![c] = "unauthenticated"]
            /\ obs' = Called(obs, "start")
            /\ UNCHANGED <<this, subs, events, pc>>
       ELSE IF this.syncStarted
       THEN /\ result' = [result EXCEPT ![c] = "noop"]
            /\ obs' = Called(obs, "start")
            /\ UNCHANGED <<this, subs, events, pc>>
       ELSE /\ Leave(c, Enter(c, [Engine EXCEPT !.this.syncStarted = TRUE,
                                                !.events = notifyListeners(@, "sync-started")]))
            /\ obs' = IF AlreadyInProgress(this)
                      THEN Called(obs, "start")
                      ELSE Called(ObsEnter(obs), "start")
    /\ UNCHANGED <<local, remote, clock, authed, lastComplete, frame, up, drain>>

\* subscribeToWorksheets of setupRealtimeListeners has settled, and startSync
\* returns: the subscription is kept, or the error is logged and, if it is an
\* authentication error, reported and answered with stopSync.
SetupListeners(c) ==
    /\ UNCHANGED <<peer, snap>>
    /\ pc[c] = "subscribe"
    /\ \E out \in {"ok"} \cup Errors :
         LET n == obs.opened + 1
         IN  /\ SetEngine(IF out = "ok"
                          THEN [Engine EXCEPT !.this.unsubscribe = n, !.subs = @ \cup {n}]
                          ELSE IF isAuthError(out)
                          THEN stopSync([Engine EXCEPT !.events = notifyListeners(@, "auth-error")])
                          ELSE Engine)
             /\ obs' = [obs EXCEPT !.opened = IF out = "ok" THEN n ELSE @,
                                   !.setup = out]
    /\ pc' = [pc EXCEPT ![c] = "idle"]
    /\ UNCHANGED <<local, remote, clock, authed, lastComplete, frame, result, up, drain>>

\* stopSync, called by the application's sign-out listener.
CallStopSync ==
    /\ UNCHANGED <<peer, snap>>
    /\ Len(obs.trace) < MaxCalls
    /\ SetEngine(stopSync(Engine))
    /\ obs' = Called(obs, "stop")
    /\ UNCHANGED <<local, remote, clock, authed, lastComplete, pc, frame, result,
                   up, drain>>

\* One worksheet is stored locally; remotely it is missing, newer, or deleted.
InitLife ==
    /\ local = [i \in Ids |-> IF i = 1 THEN Doc(1, 1, FALSE, "L", 0) ELSE Absent]
    /\ \E r \in {Absent, Doc(1, MaxTime, FALSE, "R", MaxTime), Doc(1, 1, TRUE, "R", 1)} :
         remote = [i \in Ids |-> IF i = 1 THEN r ELSE Absent]
    /\ clock = MaxTime + 1
    /\ authed = TRUE
    /\ peer = NoPeer
    /\ InitEngine(TRUE)

NextLife ==
    \/ \E c \in Starters : startSync(c)
    \/ CallStopSync
    \/ performSync
    \/ SignIn
    \/ SignOut
    \/ \E c \in Callers : PassReadLocal(c)
    \/ \E c \in Callers : PassReadRemote(c)
    \/ \E c \in Callers : PassUpload(c)
    \/ \E c \in Callers : PassDownload(c)
    \/ \E c \in Callers : PassDeleteLocal(c)
    \/ \E c \in Starters : SetupListeners(c)

SpecLife == InitLife /\ [][NextLife]_vars

\* Signing in with writes in the queue: nobody is signed in at first, the
\* application hands worksheets to syncWorksheetToCloud, and the sign-in
\* listener starts the engine.
InitLogin ==
    /\ local = [i \in Ids |-> IF i = 1 THEN Doc(1, 1, FALSE, "L", 0) ELSE Absent]
    /\ \E r \in {Absent, Doc(1, MaxTime, FALSE, "R", MaxTime), Doc(1, 1, TRUE, "R", 1)} :
         remote = [i \in Ids |-> IF i = 1 THEN r ELSE Absent]
    /\ clock = MaxTime + 1
    /\ authed = FALSE
    /\ peer = NoPeer
    /\ InitEngine(TRUE)

NextLogin ==
    \/ NextLife
    \/ \E i \in Ids : AppSync(i)
    \/ UpSave("u")
    \/ UpStamp("u")

SpecLogin == InitLogin /\ [][NextLogin]_vars

\* ---- The subscription callback and the user's two devices

\* FirebaseDbService.deleteWorksheet: the document is marked deleted with a
\* fresh updatedAt; a missing document is refused.
deleteUserWorksheet(store, i, now) ==
    [store EXCEPT ![i] = [@ EXCEPT !.deleted = TRUE, !.updatedAt = now]]

\* What the subscription callback does with the remote record r when the
\* local store holds l for its id.
ApplyRuleOnTie(l, r) ==
    IF l = Absent THEN (IF ~r.deleted THEN "add" ELSE "none")
    ELSE IF r.deleted /\ ~l.deleted THEN "delete"
    ELSE IF TimeOf(r) >= TimeOf(l) THEN "update"
    ELSE "none"

ApplyRuleAnyTombstone(l, r) ==
    IF l = Absent THEN (IF ~r.deleted THEN "add" ELSE "none")
    ELSE IF r.deleted THEN "delete"
    ELSE IF TimeOf(r) > TimeOf(l) THEN "update"
    ELSE "none"

ApplyRule(l, r) ==
    IF l = Absent THEN (IF ~r.deleted THEN "add" ELSE "none")
    ELSE IF r.deleted /\ ~l.deleted THEN "delete"
    ELSE IF TimeOf(r) > TimeOf(l) THEN "update"
    ELSE "none"

\* The callback's loop moves on to the records not yet handled, or ends.
SnapNext(h, rest, o) ==
    IF rest = <<>>
    THEN /\ snap' = [snap EXCEPT ![h] = NoSnap]
         /\ obs' = Received(o)
    ELSE /\ snap' = [snap EXCEPT ![h] = [pc |-> "get", rest |-> Tail(rest),
                                         cur |-> Head(rest), act |-> "none"]]
         /\ obs' = o

\* The remote store pushes the user's worksheets to the subscription the
\* engine holds, and a run of the callback begins.
Deliver(h, o) ==
    /\ snap[h].pc = "idle"
    /\ h = "h1" \/ snap["h1"].pc # "idle"
    /\ this.unsubscribe # 0 /\ this.unsubscribe \in subs
    /\ getUserWorksheets(remote) # <<>>
    /\ SnapNext(h, getUserWorksheets(remote), o)
    /\ UNCHANGED <<local, remote, clock, authed, this, subs, events, lastComplete,
                   pc, frame, result, up, drain, peer>>

Snapshot(h) == Deliver(h, obs)

\* getLocalWorksheetById has resolved: the callback decides what to do with
\* the record and starts the local write, or goes on to the next record.
SnapGet(h) ==
    /\ snap[h].pc = "get"
    /\ LET act == ApplyRule(getWorksheetById(local, snap[h].cur.id), snap[h].cur)
       IN  IF act = "none"
           THEN SnapNext(h, snap[h].rest, obs)
           ELSE /\ snap' = [snap EXCEPT ![h] = [@ EXCEPT !.pc = "write", !.act = act]]
                /\ UNCHANGED obs
    /\ UNCHANGED <<local, remote, clock, authed, this, subs, events, lastComplete,
                   pc, frame, result, up, drain, peer>>

\* The local write of the callback has resolved and its event is emitted.
SnapWrite(h) ==
    /\ snap[h].pc = "write"
    /\ local' = IF snap[h].act = "delete"
                THEN deleteLocalWorksheet(local, snap[h].cur.id)
                ELSE saveLocalWorksheet(local, snap[h].cur)
    /\ events' = notifyListeners(events,
                     IF snap[h].act = "delete" THEN "worksheet-deleted"
                     ELSE IF snap[h].act = "add" THEN "worksheet-added"
                     ELSE "worksheet-updated")
    /\ SnapNext(h, snap[h].rest, obs)
    /\ UNCHANGED <<remote, clock, authed, this, subs, lastComplete, pc, frame,
                   result, up, drain, peer>>

\* The legacy application's deleteWorksheet: the local tombstone, then, signed
\* in, the remote one, whose failure is logged and ignored.
AppDeleteCloud(i) ==
    /\ \A c \in Callers : pc[c] \in {"idle", "subscribe"}
    /\ Len(obs.trace) < MaxCalls
    /\ local[i] # Absent /\ ~local[i].deleted
    /\ local' = deleteWorksheet(local, i, clock)
    /\ clock' = clock + 2
    /\ \E out \in {"ok"} \cup Errors :
         IF authed /\ out = "ok" /\ remote[i] # Absent
         THEN /\ remote' = deleteUserWorksheet(remote, i, clock + 1)
              /\ obs' = [Deleted(Called(obs, "delete"), i, 2) EXCEPT !.clean = FALSE]
         ELSE /\ remote' = remote
              /\ obs' = [Deleted(Called(obs, "delete"), i, 1) EXCEPT !.clean = FALSE]
    /\ UNCHANGED <<authed, this, subs, events, lastComplete, pc, frame,
                   result, up, drain, peer, snap>>

\* The model turns to the user's other device, while nothing is in flight on
\* this one.
SwitchDevice ==
    /\ \A c \in Callers : pc[c] = "idle"
    /\ \A u \in Uploaders : up[u].pc = "idle"
    /\ \A h \in Handlers : snap[h].pc = "idle"
    /\ local' = peer.store
    /\ this' = peer.this
    /\ peer' = [name |-> Device, store |-> local, this |-> this]
    /\ UNCHANGED <<remote, clock, authed, subs, events, lastComplete, pc, frame,
                   result, up, drain, obs, snap>>

\* Worksheet 1 is live and equal on both devices and on the remote store;
\* the first device also holds a worksheet 2 it has not uploaded yet.
InitDevices ==
    /\ remote = [i \in Ids |-> IF i = 1 THEN Doc(1, 1, FALSE, "L", 1) ELSE Absent]
    /\ peer = [NoPeer EXCEPT !.store = remote]
    /\ local = [i \in Ids |-> IF i = 2 THEN Doc(2, 1, FALSE, "L", 0) ELSE remote[i]]
    /\ clock = MaxTime + 1
    /\ authed = TRUE
    /\ InitEngine(TRUE)

NextDevices ==
    \/ \E i \in Ids : AppDelete(i)
    \/ \E i \in Ids : AppDeleteCloud(i)
    \/ SwitchDevice
    \/ performSync
    \/ \E c \in Starters : startSync(c)
    \/ \E c \in Callers : PassReadLocal(c)
    \/ \E c \in Callers : PassReadRemote(c)
    \/ \E c \in Callers : PassUpload(c)
    \/ \E c \in Callers : PassDownload(c)
    \/ \E c \in Callers : PassDeleteLocal(c)
    \/ \E c \in Starters : SetupListeners(c)
    \/ \E h \in Handlers : Snapshot(h)
    \/ \E h \in Handlers : SnapGet(h)
    \/ \E h \in Handlers : SnapWrite(h)

SpecDevices == InitDevices /\ [][NextDevices]_vars

\* ---- The subscription callback on any pair of records

\* A record as the application or a pass left it locally (live or a
\* tombstone), and as a device left it remotely.
StoredShapes == {[t |-> 0, d |-> FALSE]} \cup [t : 1..MaxTime, d : BOOLEAN]

StoredPairs ==
    {p \in [l : StoredShapes, r : StoredShapes] :
        (p.l.t = 0 => p.r.t = 1) /\ (p.r.t = 0 => p.l.t <= 1)}

\* The engine holds its subscription; since its pass, the application and
\* other devices have written one worksheet, locally and remotely, in any
\* way, and the other worksheets are the same on both sides.
InitApply ==
    /\ \E k \in Ids : \E p \in StoredPairs :
          /\ local = [i \in Ids |-> IF i = k THEN Shaped(i, p.l, "L", 0)
                                    ELSE Doc(i, 1, FALSE, "R", 1)]
          /\ remote = [i \in Ids |-> IF i = k THEN Shaped(i, p.r, "R", p.r.t)
                                     ELSE Doc(i, 1, FALSE, "R", 1)]
    /\ clock = MaxTime + 1
    /\ authed = TRUE
    /\ peer = NoPeer
    /\ InitEngineOf([NewService(TRUE) EXCEPT !.syncStarted = TRUE, !.unsubscribe = 1], {1})

NextApply ==
    \/ \E h \in Handlers : Snapshot(h)
    \/ \E h \in Handlers : SnapGet(h)
    \/ \E h \in Handlers : SnapWrite(h)

SpecApply == InitApply /\ [][NextApply]_vars

\* ---- Two snapshots in a row

\* The snapshots pushed so far, and the most that are followed.
Pushes == Cardinality({k \in 1..Len(obs.trace) : obs.trace[k] = "snapshot"})
MaxPushes == 2

\* A snapshot is pushed and counted.
Push(h) ==
    /\ Pushes < MaxPushes
    /\ Deliver(h, Called(obs, "snapshot"))

\* Between the first snapshot and the second another device deletes
\* worksheet i (FirebaseDbService.deleteWorksheet: a tombstone with a fresh
\* updatedAt); the second snapshot is pushed for that change.
PeerDelete(i) ==
    /\ Pushes = 1
    /\ Live(remote, i)
    /\ remote' = deleteUserWorksheet(remote, i, clock)
    /\ clock' = clock + 1
    /\ obs' = Called(obs, "delete")
    /\ UNCHANGED <<local, authed, this, subs, events, lastComplete, pc, frame,
                   result, up, drain, peer, snap>>

\* The remote store before any deletion: every worksheet live, as uploaded.
FirstRemote == [i \in Ids |-> Doc(i, 1, FALSE, "R", 1)]

\* The engine holds its subscription; each worksheet of the remote store is
\* stored locally in the same version or not yet at all.
InitSnaps ==
    /\ remote = FirstRemote
    /\ local \in [Ids -> {Absent}] \cup {FirstRemote} \cup
                 {[i \in Ids |-> IF i = k THEN FirstRemote[i] ELSE Absent] : k \in Ids}
    /\ clock = MaxTime + 1
    /\ authed = TRUE
    /\ peer = NoPeer
    /\ InitEngineOf([NewService(TRUE) EXCEPT !.syncStarted = TRUE, !.unsubscribe = 1], {1})

NextSnaps ==
    \/ \E h \in Handlers : Push(h)
    \/ \E i \in Ids : PeerDelete(i)
    \/ \E h \in Handlers : SnapGet(h)
    \/ \E h \in Handlers : SnapWrite(h)

SpecSnaps == InitSnaps /\ [][NextSnaps]_vars

\* ---- The plan of a pass on any pair of record sets

\* getAllLocalWorksheets, which the engine leaves to its host, bound to an
\* accessor that returns every stored record, tombstones included: the local
\* set the decisions of performInitialSync provide for.
getAllLocalWorksheets(store) ==
    LET s == DescSeq({i \in Ids : store[i] # Absent})
    IN  [k \in 1..Len(s) |-> store[s[k]]]

\* getUserId and getAllLocalWorksheets have resolved, for that binding.
PassReadStored(c) ==
    /\ UNCHANGED <<peer, snap>>
    /\ pc[c] = "readLocal"
    /\ pc' = [pc EXCEPT ![c] = "readRemote"]
    /\ frame' = [frame EXCEPT ![c] = [NoFrame EXCEPT !.localWorksheets = getAllLocalWorksheets(local)]]
    /\ UNCHANGED <<local, remote, clock, authed, this, subs, events, lastComplete,
                   result, up, drain, obs>>

\* The pair of an id stored on neither side.
NoPair == [l |-> [t |-> 0, d |-> FALSE], r |-> [t |-> 0, d |-> FALSE]]

\* Any local and remote record of up to two ids, tombstones on either side.
InitPlan ==
    /\ \E f \in [Ids -> StoredPairs \cup {NoPair}] :
          /\ Cardinality({i \in Ids : f[i] # NoPair}) <= 2
          /\ local = [i \in Ids |-> Shaped(i, f[i].l, "L", 0)]
          /\ remote = [i \in Ids |-> Shaped(i, f[i].r, "R", f[i].r.t)]
    /\ clock = MaxTime + 1
    /\ authed = TRUE
    /\ peer = NoPeer
    /\ InitEngine(TRUE)

\* The pass up to its plan: the store calls the plan asks for are not made.
NextPlan ==
    \/ performSync
    \/ PassReadStored("m")
    \/ PassReadRemote("m")

SpecPlan == InitPlan /\ [][NextPlan]_vars

\* The last pass of the manual trigger has completed and nothing was written since.
PassDone == pc["m"] = "idle" /\ result["m"] = "ok" /\ obs.clean

\* At the start of the last pass id i was a tombstone on one side and
\* unknown to the other.
OneSidedTombstone(i) ==
    \/ obs.startLocal[i].deleted /\ obs.startRemote[i] = Absent
    \/ obs.startRemote[i].deleted /\ obs.startLocal[i] = Absent

\* C1 (no resurrection): an id that is a tombstone on one side and absent on
\* the other when a pass starts is never downloaded by that pass, and when it
\* was absent locally it stays absent locally.
NoResurrection ==
    \A i \in Ids :
        (obs.passes > 0 /\ OneSidedTombstone(i)) =>
            /\ i \notin obs.got
            /\ obs.startLocal[i] = Absent => local[i] = Absent

\* A pass has completed that started with a remote-only tombstone and with a
\* local-only tombstone, and that downloaded some other worksheet.
NoResurrectionWitness ==
    /\ PassDone
    /\ \E i \in Ids : obs.startRemote[i].deleted /\ obs.startLocal[i] = Absent
    /\ \E i \in Ids : obs.startLocal[i].deleted /\ obs.startRemote[i] = Absent

\* C2 (upload-then-delete propagation): a worksheet whose remote copy is live
\* and which the application has soft-deleted locally is a tombstone in the
\* remote store after the next successful pass.
DeletePropagates ==
    \A i \in Ids :
        (PassDone /\ obs.startLocal[i].deleted
            /\ obs.startRemote[i] # Absent /\ ~obs.startRemote[i].deleted
            /\ obs.startLocal[i].updatedAt > obs.startRemote[i].updatedAt)
        => remote[i].deleted

\* The version of id i, local or remote, with the larger updatedAt at the
\* start of the last pass.
Newer(i) ==
    IF obs.startLocal[i].updatedAt > obs.startRemote[i].updatedAt
    THEN obs.startLocal[i] ELSE obs.startRemote[i]

BothAtStart(i) == obs.startLocal[i] # Absent /\ obs.startRemote[i] # Absent

\* C3 as stated (last write wins): for an id on both sides with different
\* updatedAt, the local store holds the version with the larger updatedAt
\* after a successful pass.
LastWriteWins ==
    \A i \in Ids :
        (PassDone /\ BothAtStart(i)
            /\ obs.startLocal[i].updatedAt # obs.startRemote[i].updatedAt)
        => local[i] = Newer(i)

\* C3 as amended: the same for an id that is live (not tombstoned) on both sides.
LastWriteWinsLive ==
    \A i \in Ids :
        (PassDone /\ BothAtStart(i)
            /\ ~obs.startLocal[i].deleted /\ ~obs.startRemote[i].deleted
            /\ obs.startLocal[i].updatedAt # obs.startRemote[i].updatedAt)
        => local[i] = Newer(i)

\* A pass has completed in which the remote version of one live worksheet
\* won and the local version of another.
LastWriteWinsWitness ==
    /\ PassDone
    /\ \E i, j \in Ids :
        /\ BothAtStart(i) /\ BothAtStart(j)
        /\ ~obs.startLocal[i].deleted /\ ~obs.startRemote[i].deleted
        /\ ~obs.startLocal[j].deleted /\ ~obs.startRemote[j].deleted
        /\ obs.startLocal[i].updatedAt < obs.startRemote[i].updatedAt
        /\ obs.startLocal[j].updatedAt > obs.startRemote[j].updatedAt
        /\ local[i] = obs.startRemote[i]
        /\ local[j] = obs.startLocal[j]

\* C4 (idempotence): a pass that completes after a completed pass, with no
\* write in between, saves nothing remotely, saves and deletes nothing
\* locally, and reports uploaded = downloaded = deleted = 0.
SecondPassIdle ==
    (pc["m"] = "idle" /\ result["m"] = "ok" /\ obs.prevClean)
    => (obs.ops = NoOps /\ lastComplete = NoOps)

\* A second pass in a row has completed after a first one that uploaded and
\* downloaded.
SecondPassIdleWitness ==
    /\ pc["m"] = "idle" /\ result["m"] = "ok" /\ obs.prevClean
    /\ \E i \in Ids : remote[i].src = "L"
    /\ \E i \in Ids : local[i].src = "R"
\* ---- The retry queue

\* The first call was syncWorksheetToCloud, made signed in and offline.
QueuedOffline == obs.trace = <<"sync">> /\ authed /\ ~this.isOnline

\* The 'online' event then fired, and the drain it started has ended with its
\* one remote save successful.
DrainedOnline ==
    /\ obs.trace = <<"sync", "online">>
    /\ authed
    /\ \A d \in Drains : ~drain[d].active
    /\ obs.dr["d1"].how = <<"ok">>

InSeq(w, q) == \E k \in 1..Len(q) : q[k] = w

\* C6: a worksheet whose remote save failed with an authentication error is
\* not in pendingSyncs, and every such failed upload caused exactly one
\* 'auth-error' event.
AuthFailureNotRetried ==
    /\ \A w \in obs.rejected : ~InSeq(w, this.pendingSyncs)
    /\ events["auth-error"] = obs.authFailures

\* The entries of a drain whose attempt did not upload them, in the order of
\* the attempts.
RECURSIVE NotUploaded(_, _)
NotUploaded(tried, how) ==
    IF tried = <<>> \/ how = <<>> THEN <<>>
    ELSE IF Head(how) = "ok" THEN NotUploaded(Tail(tried), Tail(how))
    ELSE <<Head(tried)>> \o NotUploaded(Tail(tried), Tail(how))

\* a can be had from b by leaving entries out.
RECURSIVE IsSubSeq(_, _)
IsSubSeq(a, b) ==
    IF a = <<>> THEN TRUE
    ELSE IF b = <<>> THEN FALSE
    ELSE IF Head(a) = Head(b) THEN IsSubSeq(Tail(a), Tail(b))
    ELSE IsSubSeq(a, Tail(b))

TransientFailureQueued ==
    [][ /\ (up["u"].pc = "save" /\ up'["u"].pc = "idle" /\ up'["u"].error = "unavailable")
           => /\ this'.pendingSyncs = Append(this.pendingSyncs, up["u"].w)
              /\ events'["auth-error"] = events["auth-error"]
              /\ up'["u"].result = "threw"
        /\ \A d \in Drains :
             (up[d].pc = "save" /\ obs'.dr[d].how = Append(obs.dr[d].how, "unavailable"))
             => /\ Len(this'.pendingSyncs) >= Len(this.pendingSyncs) + 2
                /\ SubSeq(this'.pendingSyncs, 1, Len(this.pendingSyncs) + 2)
                     = this.pendingSyncs \o <<up[d].w, up[d].w>>
                /\ events'["auth-error"] = events["auth-error"]
      ]_vars

TransientFailureQueuedWitness ==
    /\ up["u"].pc = "idle" /\ up["u"].result = "threw" /\ up["u"].error = "unavailable"
    /\ this.pendingSyncs = <<up["u"].w>>
    /\ events["auth-error"] = 0

\* ---- Starting and stopping

\* C9: a startSync call made while an earlier one has not returned is a
\* no-op, so at no time are two startSync invocations past the syncStarted
\* guard.
StartSingleFlight == Cardinality({c \in Starters : pc[c] # "idle"}) <= 1

\* The positions of a performInitialSync invocation that holds the guard.
PassPcs == {"readLocal", "readRemote", "upload", "download", "deleteLocal"}

\* C10: at most one performInitialSync invocation is between reading the
\* stores and finishing, and a startSync or manual call made while a pass is
\* running starts no pass and leaves both stores and every pass's plan as
\* they are.
OnePassAtATime ==
    /\ [](Cardinality({c \in Callers : pc[c] \in PassPcs}) <= 1)
    /\ [][ (this.syncInProgress /\ Len(obs'.trace) = Len(obs.trace) + 1)
           => /\ \A c \in Callers : pc'[c] \in PassPcs => pc[c] \in PassPcs
              /\ local' = local /\ remote' = remote /\ frame' = frame
              /\ events'["initial-sync"] = events["initial-sync"] ]_vars

\* While one invocation holds the guard, another has come and gone.
OnePassAtATimeWitness ==
    \E c \in Callers :
        /\ pc[c] \in PassPcs
        /\ \E x \in Callers \ {c} : result[x] = "skipped" /\ pc[x] \notin PassPcs

\* C11: the remote subscriptions the engine has opened and not yet cancelled
\* are at most one.
OneLiveSubscription == Cardinality(subs) <= 1

\* C12: when a startSync invocation ends in failure, of its pass or of the
\* opening of its subscription, syncStarted is false as it returns and one
\* 'sync-error' event has been emitted.
StartFailureRetryable ==
    [][ \A c \in Starters :
          (pc'[c] = "idle" /\ (\/ pc[c] \in PassPcs /\ result'[c] = "failed"
                               \/ pc[c] = "subscribe" /\ obs'.setup \in Errors))
          => /\ ~this'.syncStarted
             /\ events'["sync-error"] = events["sync-error"] + 1 ]_vars

\* The step is a call of stopSync by the application.
StopCalled ==
    /\ Len(obs'.trace) = Len(obs.trace) + 1
    /\ obs'.trace[Len(obs'.trace)] = "stop"

NeverUndeleted ==
    [][ \A i \in Ids : local[i].deleted => (local'[i].deleted \/ local'[i] = Absent) ]_vars

\* C15: once a worksheet soft-deleted on one device has been propagated by
\* that device (tombstone upload or a completed pass) and the other device has
\* afterwards completed a pass or applied a pushed snapshot, the worksheet is
\* tombstoned remotely and live on neither device.
DeletionConverges ==
    obs.conv.stage = 3 =>
        /\ remote[obs.conv.id].deleted
        /\ ~Live(local, obs.conv.id)
        /\ ~Live(peer.store, obs.conv.id)

\* A pass of caller c completes successfully in this step.
PassCompletes(c) == pc[c] \in PassPcs /\ pc'[c] \notin PassPcs /\ result'[c] = "ok"

PassFails(c) == pc[c] \in PassPcs /\ pc'[c] \notin PassPcs /\ result'[c] \in {"failed", "threw"}

\* The failure events delivered to the listeners so far.
FailureEvents(ev) == ev["sync-error"] + ev["auth-error"]

\* C17: when a store call fails during a pass, started by startSync or by the
\* manual trigger, no exception reaches the caller and the failure is
\* delivered to the listeners as an event.
FailuresStayInside ==
    [][ \A c \in Callers :
          PassFails(c) =>
              /\ result'[c] # "threw"
              /\ FailureEvents(events') > FailureEvents(events) ]_vars

\* C18: one failure, of a pass or of the opening of the subscription, which
\* is one step of the engine, delivers at most one event among 'sync-error'
\* and 'auth-error' to the listeners.
OneEventPerFailure ==
    [][ FailureEvents(events') <= FailureEvents(events) + 1 ]_vars

\* A pass of caller c, or the opening of c's subscription, fails in this step
\* with an error classified as an authentication error.
AuthFails(c) ==
    \/ PassFails(c) /\ isAuthError(obs'.err)
    \/ pc[c] = "subscribe" /\ pc'[c] = "idle" /\ obs'.setup \in Errors /\ isAuthError(obs'.setup)

\* C19: when a pass or the opening of the subscription fails with an
\* authentication error, one 'auth-error' event is emitted, the subscription
\* whose handle the engine holds is cancelled and the handle cleared, and
\* syncStarted is false when the operation ends.
AuthFailureTearsDown ==
    [][ \A c \in Callers :
          AuthFails(c) =>
              /\ events'["auth-error"] = events["auth-error"] + 1
              /\ this.unsubscribe # 0 => this.unsubscribe \notin subs'
              /\ this'.unsubscribe = 0
              /\ ~this'.syncStarted ]_vars

\* A pass has failed with an authentication error while the engine held a
\* subscription, which is cancelled.
AuthFailureTearsDownWitness ==
    /\ obs.err = "permission-denied"
    /\ obs.opened > 0 /\ obs.opened \notin subs
    /\ obs.trace = <<"start", "pass">>
    /\ result["m"] = "threw"
    /\ events["auth-error"] = 1
    /\ this.unsubscribe = 0 /\ ~this.syncStarted

\* The plan of the pass of caller c: made in the step that reads the remote
\* store, kept in the frame afterwards.
PlanOf(c) ==
    IF pc[c] = "readRemote"
    THEN Plan(frame[c].localWorksheets, getUserWorksheets(remote))
    ELSE frame[c]

\* C20: the complete event of a pass is emitted in the step that ends the
\* pass successfully, when as many uploads, downloads and local deletes have
\* been made as the pass planned; its counts are those numbers; and a pass
\* that ends because a store call failed emits no complete event.
CompleteAfterAllOps ==
    [][ /\ events'["complete"] > events["complete"] =>
            /\ events'["complete"] = events["complete"] + 1
            /\ \E c \in Callers :
                 /\ PassCompletes(c)
                 /\ obs'.ops = [uploaded   |-> Len(PlanOf(c).toUpload),
                                downloaded |-> Len(PlanOf(c).toDownload),
                                deleted    |-> Len(PlanOf(c).toDeleteLocally)]
                 /\ lastComplete' = obs'.ops
        /\ \A c \in Callers :
             PassFails(c) => events'["complete"] = events["complete"] ]_vars

\* A pass that uploaded one worksheet and then downloaded or deleted another
\* has emitted its complete event with those counts.
CompleteAfterAllOpsWitness ==
    /\ pc["m"] = "idle" /\ result["m"] = "ok"
    /\ events["complete"] = 1
    /\ lastComplete = obs.ops
    /\ lastComplete.uploaded = 1
    /\ lastComplete.downloaded + lastComplete.deleted = 1

\* The step is a call of processPendingSyncs, direct or from the online
\* handler, that finds the engine offline or no user signed in.
GatedDrainCalled ==
    /\ Len(obs'.trace) = Len(obs.trace) + 1
    /\ \/ obs'.trace[Len(obs'.trace)] = "drain" /\ (~this.isOnline \/ ~authed)
       \/ obs'.trace[Len(obs'.trace)] = "online" /\ ~authed

\* C21: processPendingSyncs called while the engine is offline or no user is
\* signed in starts no remote save, takes nothing from pendingSyncs and leaves
\* it as it is, and emits no event (the 'online' event of the handler that
\* calls it is the handler's own).
DrainGated ==
    [][ GatedDrainCalled =>
          /\ this'.pendingSyncs = this.pendingSyncs
          /\ obs'.saves = obs.saves /\ obs'.dr = obs.dr
          /\ up' = up /\ drain' = drain /\ remote' = remote
          /\ events' = IF obs'.trace[Len(obs'.trace)] = "online"
                       THEN notifyListeners(events, "online") ELSE events ]_vars

\* processPendingSyncs has been called offline with a write in the queue.
DrainGatedWitness ==
    /\ obs.trace # <<>> /\ obs.trace[Len(obs.trace)] = "drain"
    /\ ~this.isOnline /\ authed
    /\ this.pendingSyncs # <<>>
    /\ \A d \in Drains : ~drain[d].active /\ obs.dr[d] = NoDrainLog

\* The step is a call of the application's delete.
DeleteCalled ==
    /\ Len(obs'.trace) = Len(obs.trace) + 1
    /\ obs'.trace[Len(obs'.trace)] = "delete"

RuleCase(l, r) ==
    IF l = Absent /\ ~r.deleted THEN "add"
    ELSE IF l # Absent /\ r.deleted /\ ~l.deleted THEN "delete"
    ELSE IF l # Absent /\ r.updatedAt > l.updatedAt THEN "update"
    ELSE "none"

\* C23: for each record r of a pushed snapshot the callback decides by the
\* four cases, on the local record it reads; case none changes no store and
\* emits nothing; the write of the other cases saves r (add, update) or
\* removes the local record (delete) and emits the one event of its case;
\* and after it the same record falls under case none, so that the same
\* snapshot delivered again changes and emits nothing.
SnapshotApplyRule ==
    [][ \A h \in Handlers :
          /\ (snap[h].pc = "get" /\ snap'[h] # snap[h]) =>
                LET r == snap[h].cur
                IN  /\ RuleCase(local[r.id], r) =
                          (IF snap'[h].pc = "write" THEN snap'[h].act ELSE "none")
                    /\ local' = local /\ events' = events /\ remote' = remote
          /\ (snap[h].pc = "write" /\ snap'[h] # snap[h]) =>
                LET r == snap[h].cur
                IN  /\ snap[h].act \in {"add", "update"} =>
                          local' = [local EXCEPT ![r.id] = r]
                    /\ snap[h].act = "delete" =>
                          local' = [local EXCEPT ![r.id] = Absent]
                    /\ events' = [events EXCEPT ![
                          IF snap[h].act = "add" THEN "worksheet-added"
                          ELSE IF snap[h].act = "delete" THEN "worksheet-deleted"
                          ELSE "worksheet-updated"] = @ + 1]
                    /\ remote' = remote
                    /\ RuleCase(local'[r.id], r) = "none" ]_vars

\* The callback has run to its end with one write (an add, a delete or an
\* update of the worksheet written since the pass), and every record of the
\* snapshot now falls under case none.
SnapshotApplyRuleWitness ==
    /\ \A h \in Handlers : snap[h].pc = "idle"
    /\ events["worksheet-added"] + events["worksheet-deleted"] + events["worksheet-updated"] = 1
    /\ \A i \in Ids : remote[i] # Absent => RuleCase(local[i], remote[i]) = "none"
    /\ \E i \in Ids : remote[i] # Absent /\ (local[i] = remote[i] \/ local[i] = Absent)
                      /\ remote[i] # Doc(i, 1, FALSE, "R", 1)

\* The action the decision table gives the id of the local record l and the
\* remote record r (Absent for a missing one).
TableAction(l, r) ==
    IF l = Absent /\ r = Absent THEN "none"
    ELSE IF r = Absent THEN (IF l.deleted THEN "none" ELSE "upload")
    ELSE IF l = Absent THEN (IF r.deleted THEN "none" ELSE "download")
    ELSE IF r.deleted /\ ~l.deleted THEN "delete"
    ELSE IF l.deleted /\ ~r.deleted THEN "upload"
    ELSE IF l.updatedAt > r.updatedAt THEN "upload"
    ELSE IF r.updatedAt > l.updatedAt THEN "download"
    ELSE "none"

\* The actions a plan holds for id i, and how many entries it has for i.
PlannedFor(f, i) ==
    {a \in {"upload"} : \E k \in 1..Len(f.toUpload) : f.toUpload[k].id = i}
    \cup {a \in {"download"} : \E k \in 1..Len(f.toDownload) : f.toDownload[k].id = i}
    \cup {a \in {"delete"} : \E k \in 1..Len(f.toDeleteLocally) : f.toDeleteLocally[k] = i}

EntriesFor(f, i) ==
    Cardinality({k \in 1..Len(f.toUpload) : f.toUpload[k].id = i})
    + Cardinality({k \in 1..Len(f.toDownload) : f.toDownload[k].id = i})
    + Cardinality({k \in 1..Len(f.toDeleteLocally) : f.toDeleteLocally[k] = i})

\* A pass of the manual trigger has made its plan and awaits the first store
\* call of it; or the plan was empty and the pass has completed.
Planned == pc["m"] \in {"upload", "download", "deleteLocal"}
PlannedNothing == pc["m"] = "idle" /\ result["m"] = "ok"

HasMarker(error) ==
    /\ error.given
    /\ \E k \in 1..Len(authErrorMessages) :
         \/ error.message.has /\ Includes(error.message.text, authErrorMessages[k])
         \/ error.code.kind = "string" /\ Includes(error.code.text, authErrorMessages[k])

\* C25: isAuthError is true exactly for the errors whose message or code
\* contains one of the four markers and false for every other error, and a
\* failed upload whose error it does not classify as authentication is queued
\* for retry.
ClassifiedExactly ==
    obs.cls.result # "none" =>
        /\ obs.cls.result = (IF HasMarker(obs.cls.error) THEN "true" ELSE "false")
        /\ ~HasMarker(obs.cls.error) => InSeq(up["u"].w, this.pendingSyncs)

\* C26: a save or delete handler whose cloud sync step failed returns as one
\* whose sync step succeeded does, and when a handler has returned the local
\* store holds what it wrote: the record with the updatedAt of the save, or
\* the tombstone.
LocalWriteSurvives ==
    /\ obs.handler.outcome # "threw"
    /\ obs.handler.outcome = "returned" =>
         /\ local[obs.handler.id] # Absent
         /\ local[obs.handler.id].updatedAt = obs.handler.at
         /\ local[obs.handler.id].deleted = (obs.handler.op = "delete")

\* A delete handler has returned after the upload of its tombstone was
\* rejected, and the tombstone is in the local store.
LocalWriteSurvivesWitness ==
    /\ obs.handler.op = "delete" /\ obs.handler.outcome = "returned"
    /\ up["u"].result = "threw" /\ up["u"].w.id = obs.handler.id
    /\ local[obs.handler.id].deleted

\* The syncWorksheetToCloud requests the application has made so far.
Requests == Cardinality({k \in 1..Len(obs.trace) : obs.trace[k] = "sync"})

\* C27: pendingSyncs never holds more entries than the application has made
\* syncWorksheetToCloud requests, so that an entry whose upload failed in a
\* drain is in the queue once.
NoDuplicateEntries == Len(this.pendingSyncs) <= Requests

\* What the reconciliation rule and the apply rule do to the local record l
\* of a pair with the remote record r: keep it, overwrite it with r, or
\* hard-delete it.
ReconEffect(l, r) ==
    IF InBoth(l, r) = "delete" THEN "delete"
    ELSE IF InBoth(l, r) = "download" THEN "overwrite"
    ELSE "keep"

ApplyEffect(l, r) ==
    IF ApplyRule(l, r) = "delete" THEN "delete"
    ELSE IF ApplyRule(l, r) \in {"add", "update"} THEN "overwrite"
    ELSE "keep"

\* C28: for every id stored on both sides, tombstoned or not, the
\* reconciliation rule and the apply rule of the subscription callback have
\* the same effect on the local record.
SameComparison ==
    \A i \in Ids :
        (local[i] # Absent /\ remote[i] # Absent)
        => ReconEffect(local[i], remote[i]) = ApplyEffect(local[i], remote[i])

\* The most recent call made on the engine is stopSync.
StoppedLast == Len(obs.trace) > 0 /\ obs.trace[Len(obs.trace)] = "stop"

\* C29: when a startSync call that was suspended while stopSync was called
\* finishes, and no call has been made since that stopSync, syncStarted is
\* false and the call leaves no subscription of its own open.
StopWins ==
    [][\A c \in Starters :
          (StoppedLast /\ obs'.trace = obs.trace /\ pc[c] # "idle" /\ pc'[c] = "idle")
          => (~this'.syncStarted /\ this'.unsubscribe = 0 /\ subs' \subseteq subs)]_vars

\* Worksheet i is a tombstone on both sides, with different updatedAt values.
DoubleTombstone(i) ==
    /\ local[i] # Absent /\ remote[i] # Absent
    /\ local[i].deleted /\ remote[i].deleted
    /\ local[i].updatedAt # remote[i].updatedAt

UploadLastWriteWins ==
    [][\A i \in Ids :
          (remote[i] # Absent /\ ~remote[i].deleted /\ remote'[i] # remote[i])
          => remote'[i].updatedAt >= remote[i].updatedAt]_vars

\* The local store after one run of the callback on the snapshot list,
\* with no other run in between.
RECURSIVE ApplyAll(_, _)
ApplyAll(store, list) ==
    IF list = <<>> THEN store
    ELSE LET r == Head(list)
             act == ApplyRule(getWorksheetById(store, r.id), r)
         IN  ApplyAll(IF act = "none" THEN store
                      ELSE IF act = "delete" THEN deleteLocalWorksheet(store, r.id)
                      ELSE saveLocalWorksheet(store, r),
                      Tail(list))

\* Two snapshots were pushed and both runs of the callback have finished.
BothApplied == Pushes = MaxPushes /\ \A h \in Handlers : snap[h].pc = "idle"

\* C32: when the runs of the callback for two snapshots pushed one after the
\* other have both finished, the local store is what the first snapshot
\* applied completely and then the second applied completely leave.
SnapshotsInOrder ==
    BothApplied =>
        local = ApplyAll(ApplyAll(obs.startLocal, getUserWorksheets(FirstRemote)),
                         getUserWorksheets(remote))

\* C33: a download of a pass never replaces a live local record by a
\* version with a smaller updatedAt.
NoStaleOverwrite ==
    [][\A i \in Ids :
          (pc["m"] = "download" /\ Live(local, i) /\ local'[i] # local[i])
          => local'[i].updatedAt >= local[i].updatedAt]_vars

\* A worksheet was handed to syncWorksheetToCloud with nobody signed in, the
\* user then signed in, and the startSync call that followed has returned
\* with the engine started.
StartedAfterLogin ==
    /\ obs.trace = <<"sync", "signin", "start">>
    /\ pc["s1"] = "idle"
    /\ this.syncStarted /\ this.isOnline

\* C34: once the startSync that follows the sign-in has returned, online,
\* the writes queued before the sign-in have left the queue.
LoginDrainsQueue == StartedAfterLogin => this.pendingSyncs = <<>>

\* The remote save of the invocation f of syncWorksheetToCloud resolves in
\* this step.
Saved(f) == up[f].pc = "save" /\ up'[f].pc = "stamp"

\* C35: a remote save stores the worksheet under its id, merged into the
\* document that was there, and sets both updatedAt and syncedAt of the
\* document to the time of the save.
RemoteSaveRefreshes ==
    [][\A f \in Uploaders :
          Saved(f) =>
             LET w == up[f].w
             IN  /\ remote'[w.id].id = w.id
                 /\ remote'[w.id].updatedAt = clock
                 /\ remote'[w.id].syncedAt = clock]_vars

\* C35, amended: a remote save stores the worksheet under its id and leaves
\* every other document alone, merges it into the document that was there (a
\* tombstone stays one), sets syncedAt to the time of the save, and keeps the
\* updatedAt the worksheet came with.
RemoteSaveBookkeeping ==
    [][\A f \in Uploaders :
          Saved(f) =>
             LET w == up[f].w
             IN  /\ remote'[w.id].id = w.id
                 /\ \A j \in Ids \ {w.id} : remote'[j] = remote[j]
                 /\ remote'[w.id].deleted = (w.deleted \/ remote[w.id].deleted)
                 /\ remote'[w.id].updatedAt = w.updatedAt
                 /\ remote'[w.id].syncedAt = clock]_vars

\* A worksheet was saved over the version another device had stored: the
\* document has the worksheet's own updatedAt and a later syncedAt.
RemoteSaveBookkeepingWitness ==
    \E i \in Ids :
        /\ obs.startRemote[i] # Absent
        /\ remote[i] # Absent /\ remote[i].src = "L"
        /\ remote[i].updatedAt = local[i].updatedAt
        /\ remote[i].syncedAt > MaxTime

\* The ids stored live in a store.
LiveIds(store) == {i \in Ids : Live(store, i)}

\* C36: when a pass has completed and nothing was written since it began,
\* the same ids are live locally and remotely, each with the same updatedAt
\* on both sides.
LiveSetsConverge ==
    PassDone =>
        /\ LiveIds(local) = LiveIds(remote)
        /\ \A i \in LiveIds(local) : local[i].updatedAt = remote[i].updatedAt

\* A pass has completed that began with different live sets and uploaded,
\* downloaded and deleted to make them equal.
LiveSetsConvergeWitness ==
    /\ PassDone
    /\ LiveIds(obs.startLocal) # LiveIds(obs.startRemote)
    /\ obs.ops.uploaded + obs.ops.downloaded + obs.ops.deleted >= 2
    /\ LiveIds(local) # {}

\* C37: syncInProgress is true exactly while an invocation of
\* performInitialSync that acquired the guard has not ended, however it ends;
\* so an invocation is skipped only while such a pass is running.
GuardReleased ==
    this.syncInProgress <=> (\E c \in Callers : pc[c] \in PassPcs)

\* A pass has failed, a later invocation has acquired the guard, and no pass
\* is running any more.
GuardReleasedWitness ==
    /\ obs.err \in Errors
    /\ obs.passes >= 2
    /\ \A c \in Callers : pc[c] \notin PassPcs
    /\ \E c \in Callers : result[c] = "ok"

====
